---- MODULE Spec2Model ----
(***************************************************************************)
(* Model of flowchart.py: the pipeline of build_graph                      *)
(*   LogicPreprocessor.preprocess -> ast.parse -> NegationNormalizer       *)
(*   -> DNFConverter -> GraphBuilder.build_mermaid / build_dag.            *)
(*                                                                         *)
(* Identifiers and node ids are strings in the program.  They are          *)
(* modelled as the sequence of their '_'-separated segments, so that       *)
(* "Q1" is <<"Q1">> and "Q1_1" is <<"Q1","1">>: the id minted by           *)
(* f"{name}_{count}" is Append(name, str(count)) and split('_')[0] is      *)
(* the first segment.  The logic text is the sequence of its tokens,       *)
(* blanks included.                                                        *)
(***************************************************************************)
EXTENDS Integers, Sequences, FiniteSets, TLC

(***************************************************************************)
(* Bounds of the checked input space.                                      *)
(***************************************************************************)
NumNames == 3
MaxSize == 5

NameList == << <<"Q1">>, <<"Q2">>, <<"Q3">>, <<"Q1", "1">>, <<"Q4">> >>
Names == {NameList[i] : i \in 1..(IF NumNames < Len(NameList) THEN NumNames ELSE Len(NameList))}

EmptyMap == [x \in {} |-> x]

(***************************************************************************)
(* Expression trees (the ast node shapes the program inspects).            *)
(***************************************************************************)
Name(id) == [k |-> "Name", id |-> id]
Not(operand) == [k |-> "Not", operand |-> operand]
BoolOp(op, values) == [k |-> "BoolOp", op |-> op, values |-> values]
NoTree == [k |-> "None"]

Literal(name, is_positive) == [name |-> name, is_positive |-> is_positive]

(***************************************************************************)
(* All trees over Names with at most MaxSize nodes.                        *)
(***************************************************************************)
RECURSIVE ChildSeqs(_, _)
ChildSeqs(m, tab) ==
    (IF m <= Len(tab) THEN {<<t>> : t \in tab[m]} ELSE {})
    \cup UNION {{<<t>> \o rest : t \in tab[j], rest \in ChildSeqs(m - j, tab)} : j \in 1..(m - 1)}

ExprsOfSize(n, tab) ==
    IF n = 1 THEN {Name(id) : id \in Names}
    ELSE {Not(t) : t \in tab[n - 1]}
         \cup {BoolOp(op, vs) : op \in {"And", "Or"},
                                vs \in {s \in ChildSeqs(n - 1, tab) : Len(s) >= 2}}

RECURSIVE ExprTable(_, _)
ExprTable(n, tab) ==
    IF n > MaxSize THEN tab ELSE ExprTable(n + 1, Append(tab, ExprsOfSize(n, tab)))

Exprs == LET tab == ExprTable(1, <<>>) IN UNION {tab[n] : n \in 1..MaxSize}

(***************************************************************************)
(* NegationNormalizer.normalize.  The result pairs the returned tree with  *)
(* the value of self.negated_nodes after the call.                         *)
(***************************************************************************)
RECURSIVE normalize(_, _), normalize_values(_, _, _, _)

normalize_values(values, i, done, negated) ==
    IF i > Len(values) THEN [values |-> done, negated |-> negated]
    ELSE LET r == normalize(values[i], negated)
         IN  normalize_values(values, i + 1, Append(done, r.tree), r.negated)

normalize(node, negated) ==
    IF node.k = "Not" THEN
        IF node.operand.k = "Name" THEN
            [tree |-> node.operand, negated |-> negated \cup {node.operand.id}]
        ELSE IF node.operand.k = "BoolOp" THEN
            LET new_op == IF node.operand.op = "And" THEN "Or" ELSE "And"
                vals == node.operand.values
                flipped == BoolOp(new_op, [i \in 1..Len(vals) |-> Not(vals[i])])
            IN  normalize(flipped, negated)
        ELSE [tree |-> node, negated |-> negated]
    ELSE IF node.k = "BoolOp" THEN
        LET r == normalize_values(node.values, 1, <<>>, negated)
        IN  [tree |-> BoolOp(node.op, r.values), negated |-> r.negated]
    ELSE [tree |-> node, negated |-> negated]

(***************************************************************************)
(* DNFConverter.                                                           *)
(***************************************************************************)
_distribute_and(terms1, terms2) ==
    [idx \in 1..(Len(terms1) * Len(terms2)) |->
        terms1[((idx - 1) \div Len(terms2)) + 1] \o terms2[((idx - 1) % Len(terms2)) + 1]]

negate_literal(lit) == Literal(lit.name, ~lit.is_positive)

RECURSIVE negate_term(_, _, _)
negate_term(term, i, result) ==
    IF i > Len(term) THEN result
    ELSE negate_term(term, i + 1, _distribute_and(result, << <<negate_literal(term[i])>> >>))

RECURSIVE negate_terms(_, _, _)
negate_terms(terms, i, negated_terms) ==
    IF i > Len(terms) THEN negated_terms
    ELSE negate_terms(terms, i + 1,
            negated_terms \o negate_term(terms[i], 2, << <<negate_literal(terms[i][1])>> >>))

_negate_dnf(terms) ==
    IF terms = <<>> THEN <<>> ELSE negate_terms(terms, 1, <<>>)

convert_Name(node) == << <<Literal(node.id, TRUE)>> >>

RECURSIVE convert(_), convert_and(_, _, _), convert_or(_, _, _)

convert_and(values, i, result) ==
    IF i > Len(values) THEN result
    ELSE convert_and(values, i + 1, _distribute_and(result, convert(values[i])))

convert_or(values, i, result) ==
    IF i > Len(values) THEN result
    ELSE convert_or(values, i + 1, result \o convert(values[i]))

convert(node) ==
    IF node.k = "Name" THEN convert_Name(node)
    ELSE IF node.k = "Not" THEN
        IF node.operand.k = "Name" THEN << <<Literal(node.operand.id, FALSE)>> >>
        ELSE _negate_dnf(convert(node.operand))
    ELSE IF node.k = "BoolOp" THEN
        IF node.op = "And" THEN convert_and(node.values, 1, << <<>> >>)
        ELSE IF node.op = "Or" THEN convert_or(node.values, 1, <<>>)
        ELSE <<>>
    ELSE <<>>

(***************************************************************************)
(* The logic text and the string operations the program applies to it.     *)
(***************************************************************************)
SP == <<" ">>
AND == <<"and">>
OR == <<"or">>
NOT == <<"not">>
LP == <<"(">>
RP == <<")">>
Keywords == {SP, AND, OR, NOT, LP, RP}

\* position of the first occurrence of pat in text at or after from, 0 if none
RECURSIVE Find(_, _, _)
Find(text, pat, from) ==
    IF from + Len(pat) - 1 > Len(text) THEN 0
    ELSE IF SubSeq(text, from, from + Len(pat) - 1) = pat THEN from
    ELSE Find(text, pat, from + 1)

contains(text, pat) == Find(text, pat, 1) # 0

\* str.split(sep)
RECURSIVE split(_, _)
split(text, sep) ==
    LET idx == Find(text, sep, 1)
    IN  IF idx = 0 THEN <<text>>
        ELSE <<SubSeq(text, 1, idx - 1)>> \o split(SubSeq(text, idx + Len(sep), Len(text)), sep)

\* sep.join(parts)
RECURSIVE join(_, _)
join(sep, parts) ==
    IF parts = <<>> THEN <<>>
    ELSE IF Len(parts) = 1 THEN parts[1]
    ELSE parts[1] \o sep \o join(sep, Tail(parts))

\* str.replace(old, new): every non-overlapping occurrence, left to right
RECURSIVE replace(_, _, _)
replace(text, old, new) ==
    LET idx == Find(text, old, 1)
    IN  IF idx = 0 THEN text
        ELSE SubSeq(text, 1, idx - 1) \o new
             \o replace(SubSeq(text, idx + Len(old), Len(text)), old, new)

(***************************************************************************)
(* ast.parse(logic, mode='eval').body for the grammar                      *)
(*   or_test: and_test ('or' and_test)* ; and_test: not_test ('and' ..)*   *)
(*   not_test: 'not' not_test | atom ;  atom: NAME | '(' or_test ')'       *)
(* ok = FALSE stands for SyntaxError.                                      *)
(***************************************************************************)
ParseFail == [ok |-> FALSE, tree |-> NoTree, rest |-> <<>>]
Tokens(text) == SelectSeq(text, LAMBDA tok : tok # SP)

RECURSIVE ParseOr(_), ParseOrRest(_, _), ParseAnd(_), ParseAndRest(_, _), ParseNot(_), ParseAtom(_)

ParseAtom(toks) ==
    IF toks = <<>> THEN ParseFail
    ELSE IF Head(toks) = LP THEN
        LET r == ParseOr(Tail(toks))
        IN  IF r.ok /\ r.rest # <<>> /\ Head(r.rest) = RP
            THEN [ok |-> TRUE, tree |-> r.tree, rest |-> Tail(r.rest)]
            ELSE ParseFail
    ELSE IF Head(toks) \notin Keywords THEN
        [ok |-> TRUE, tree |-> Name(Head(toks)), rest |-> Tail(toks)]
    ELSE ParseFail

ParseNot(toks) ==
    IF toks # <<>> /\ Head(toks) = NOT THEN
        LET r == ParseNot(Tail(toks))
        IN  IF r.ok THEN [ok |-> TRUE, tree |-> Not(r.tree), rest |-> r.rest] ELSE ParseFail
    ELSE ParseAtom(toks)

ParseAndRest(values, toks) ==
    IF toks # <<>> /\ Head(toks) = AND THEN
        LET r == ParseNot(Tail(toks))
        IN  IF r.ok THEN ParseAndRest(Append(values, r.tree), r.rest) ELSE ParseFail
    ELSE [ok |-> TRUE,
          tree |-> IF Len(values) = 1 THEN values[1] ELSE BoolOp("And", values),
          rest |-> toks]

ParseAnd(toks) ==
    LET r == ParseNot(toks)
    IN  IF r.ok THEN ParseAndRest(<<r.tree>>, r.rest) ELSE ParseFail

ParseOrRest(values, toks) ==
    IF toks # <<>> /\ Head(toks) = OR THEN
        LET r == ParseAnd(Tail(toks))
        IN  IF r.ok THEN ParseOrRest(Append(values, r.tree), r.rest) ELSE ParseFail
    ELSE [ok |-> TRUE,
          tree |-> IF Len(values) = 1 THEN values[1] ELSE BoolOp("Or", values),
          rest |-> toks]

ParseOr(toks) ==
    LET r == ParseAnd(toks)
    IN  IF r.ok THEN ParseOrRest(<<r.tree>>, r.rest) ELSE ParseFail

Parse(text) ==
    LET r == ParseOr(Tokens(text))
    IN  IF r.ok /\ r.rest = <<>> THEN r ELSE ParseFail

(***************************************************************************)
(* Source texts of the trees: "min" writes only the parentheses the        *)
(* grammar needs, "explicit" parenthesises every nested and/or, "padded"   *)
(* is "min" with a blank inside each parenthesis.                          *)
(***************************************************************************)
Styles == {"min", "explicit", "padded"}

RECURSIVE Render(_, _, _), RenderValues(_, _, _, _)

RenderValues(values, op, prec, style) ==
    IF Len(values) = 1 THEN Render(values[1], prec, style)
    ELSE Render(values[1], prec, style) \o <<SP, op, SP>>
         \o RenderValues(Tail(values), op, prec, style)

\* ctx: 0 top level or inside parentheses, 1 operand of or, 2 of and, 3 of not
Render(node, ctx, style) ==
    IF node.k = "Name" THEN <<node.id>>
    ELSE IF node.k = "Not" THEN <<NOT, SP>> \o Render(node.operand, 3, style)
    ELSE LET prec == IF node.op = "And" THEN 2 ELSE 1
             inner == RenderValues(node.values, IF node.op = "And" THEN AND ELSE OR, prec, style)
             paren == IF style = "explicit" THEN ctx >= 1 ELSE ctx >= prec
         IN  IF ~paren THEN inner
             ELSE IF style = "padded" THEN <<LP, SP>> \o inner \o <<SP, RP>>
             ELSE <<LP>> \o inner \o <<RP>>

Malformed == { <<>>, <<NameList[1], SP, AND>>, <<LP, NameList[1]>>,
               <<NameList[1], SP, OR, SP, RP>> }

\* larger trees: the shape of the default logic of main, two OR-clauses under
\* one conjunction, and an OR-clause under a nested conjunction
Samples ==
    LET Q1 == Name(NameList[1])
        Q2 == Name(NameList[2])
        Q3 == Name(NameList[3])
    IN  { BoolOp("Or", << BoolOp("And", <<Q1, Not(BoolOp("And", <<Q3, Q2>>))>>),
                          BoolOp("And", <<Q2, Q3>>) >>),
          BoolOp("And", << BoolOp("Or", <<Q1, Q2>>), BoolOp("Or", <<Q1, Q3>>) >>),
          BoolOp("And", << Q1, BoolOp("And", <<Q2, BoolOp("Or", <<Q1, Q3>>)>>) >>) }

Texts == {Render(t, 0, style) : t \in Exprs \cup Samples, style \in Styles} \cup Malformed

Questions == (NameList[1] :> "a?") @@ (NameList[2] :> "b?")
Inputs == {[logic |-> text, questions |-> Questions] : text \in Texts}

(***************************************************************************)
(* LogicPreprocessor.                                                      *)
(***************************************************************************)
get_next_id(next_id) == <<"V" \o ToString(next_id)>>

or_terms_of(values) ==
    LET named == SelectSeq(values, LAMBDA v :
                     v.k = "Name" \/ (v.k = "Not" /\ v.operand.k = "Name"))
    IN  [i \in 1..Len(named) |->
            IF named[i].k = "Name" THEN named[i].id ELSE named[i].operand.id]

MaxDepth == 4

RECURSIVE find_or_groups(_, _), find_or_groups_loop(_, _, _, _)

find_or_groups_loop(node, depth, i, groups) ==
    IF i > Len(node.values) THEN groups
    ELSE LET val == node.values[i]
             or_terms == or_terms_of(val.values)
             own == IF val.k = "BoolOp" /\ val.op = "Or" /\ or_terms # <<>>
                    THEN << [or_terms |-> or_terms,
                             remaining_terms |-> SubSeq(node.values, 1, i - 1)
                                 \o SubSeq(node.values, i + 1, Len(node.values))] >>
                    ELSE <<>>
         IN  find_or_groups_loop(node, depth, i + 1,
                 groups \o own \o find_or_groups(val, depth + 1))

find_or_groups(node, depth) ==
    IF depth >= MaxDepth THEN <<>>
    ELSE IF node.k # "BoolOp" THEN <<>>
    ELSE IF node.op = "And" THEN find_or_groups_loop(node, depth, 1, <<>>)
    ELSE <<>>

old_part_of(or_terms) ==
    <<LP>> \o join(<<SP, OR, SP>>, [i \in 1..Len(or_terms) |-> <<or_terms[i]>>]) \o <<RP>>

RECURSIVE join_str(_, _)
join_str(sep, parts) ==
    IF parts = <<>> THEN ""
    ELSE IF Len(parts) = 1 THEN parts[1]
    ELSE parts[1] \o sep \o join_str(sep, Tail(parts))

or_desc_of(or_terms, questions) ==
    LET known == SelectSeq(or_terms, LAMBDA t : t \in DOMAIN questions)
    IN  join_str(" OR ", [i \in 1..Len(known) |-> questions[known[i]]])

\* the loop over or_groups of preprocess; st is the loop's state
RECURSIVE factor_loop(_, _, _, _)
factor_loop(or_groups, i, questions, st) ==
    IF i > Len(or_groups) THEN st
    ELSE LET or_terms == or_groups[i].or_terms
             virtual_node == get_next_id(st.next_id)
             text == "Does patient meet either:\n" \o or_desc_of(or_terms, questions) \o "?"
         IN  factor_loop(or_groups, i + 1, questions,
                 [next_id |-> st.next_id + 1,
                  split_map |-> (virtual_node :> or_terms) @@ st.split_map,
                  new_questions |-> (virtual_node :> text) @@ st.new_questions,
                  new_logic |-> replace(st.new_logic, old_part_of(or_terms), <<virtual_node>>)])

reordered_logic(logic) ==
    LET parts == split(logic, <<SP, AND, SP>>)
        or_parts == SelectSeq(parts, LAMBDA p : contains(p, <<SP, OR, SP>>))
        other_parts == SelectSeq(parts, LAMBDA p : ~contains(p, <<SP, OR, SP>>))
    IN  join(<<SP, AND, SP>>, or_parts \o other_parts)

preprocess(d) ==
    LET logic == reordered_logic(d.logic)
        parsed == Parse(logic)
        or_groups == find_or_groups(parsed.tree, 0)
        st == factor_loop(or_groups, 1, d.questions,
                  [next_id |-> 1, split_map |-> EmptyMap,
                   new_questions |-> d.questions, new_logic |-> logic])
    IN  IF ~parsed.ok THEN [doc |-> d, split_map |-> EmptyMap]
        ELSE IF or_groups = <<>> THEN [doc |-> d, split_map |-> EmptyMap]
        ELSE [doc |-> [logic |-> st.new_logic, questions |-> st.new_questions],
              split_map |-> st.split_map]

(***************************************************************************)
(* GraphBuilder.  A builder g is [nodes, edges, node_count]; an edge is    *)
(* <<src, cond, tgt>>.                                                     *)
(***************************************************************************)
Start == <<"Start">>
Approve == <<"Approve">>
Deny == <<"Deny">>
Sentinels == {Start, Approve, Deny}
NoNode == <<>>

NewBuilder == [nodes |-> {}, edges |-> {}, node_count |-> EmptyMap]

\* node.split('_')[0]
base_name(node) == <<node[1]>>

\* the string a node id or identifier stands for
str(id) == join_str("_", id)

\* questions.get(name, name)
display(questions, name) == IF name \in DOMAIN questions THEN questions[name] ELSE str(name)

existing_edges(edges, curr_node) ==
    {e[1] : e \in {x \in edges : x[3] = curr_node}}
    \cup {e[3] : e \in {x \in edges : x[1] = curr_node}}

\* lines 209-213: the edges out of the previous node of the chain
chain_edges(prev_node, curr_node, is_prev_positive, is_negated) ==
    LET yes_target == IF is_prev_positive # is_negated THEN curr_node ELSE Deny
        no_target == IF is_prev_positive # is_negated THEN Deny ELSE curr_node
    IN  {<<prev_node, "Yes", yes_target>>, <<prev_node, "No", no_target>>}

\* the terminal edges computed from the literal's polarity alone
terminal_edges_by_polarity(curr_node, is_positive, is_negated) ==
    LET yes_target == IF is_positive THEN Approve ELSE Deny
        no_target == IF is_positive THEN Deny ELSE Approve
    IN  {<<curr_node, "Yes", yes_target>>, <<curr_node, "No", no_target>>}

\* lines 214-218: the edges out of the last node of the chain
terminal_edges(curr_node, is_positive, is_negated) ==
    LET yes_target == IF is_positive # is_negated THEN Approve ELSE Deny
        no_target == IF is_positive # is_negated THEN Deny ELSE Approve
    IN  {<<curr_node, "Yes", yes_target>>, <<curr_node, "No", no_target>>}

\* line 208
is_negated_of(curr_node, negated) == curr_node \in negated

\* the body of the loop of _add_term for literal i; st is the loop's state,
\* st.trail the values curr_node and is_negated have taken
add_literal(term, i, st, negated) ==
    LET lit == term[i]
        seen == lit.name \in DOMAIN st.node_count
        split_it == seen /\ existing_edges(st.edges, lit.name) # {}
        node_count == IF ~seen THEN (lit.name :> 0) @@ st.node_count
                      ELSE IF split_it THEN [st.node_count EXCEPT ![lit.name] = @ + 1]
                      ELSE st.node_count
        curr_node == IF split_it THEN Append(lit.name, ToString(node_count[lit.name]))
                     ELSE lit.name
        is_negated == is_negated_of(curr_node, negated)
        from_prev == IF st.prev_node # NoNode
                     THEN chain_edges(st.prev_node, curr_node, st.is_prev_positive, is_negated)
                     ELSE {}
        from_last == IF i = Len(term)
                     THEN terminal_edges(curr_node, lit.is_positive, is_negated)
                     ELSE {}
    IN  [nodes |-> st.nodes \cup {curr_node},
         edges |-> st.edges \cup from_prev \cup from_last,
         node_count |-> node_count,
         prev_node |-> curr_node,
         is_prev_positive |-> lit.is_positive,
         trail |-> Append(st.trail, [node |-> curr_node, is_negated |-> is_negated])]

RECURSIVE add_term_loop(_, _, _, _)
add_term_loop(term, i, st, negated) ==
    IF i > Len(term) THEN st
    ELSE add_term_loop(term, i + 1, add_literal(term, i, st, negated), negated)

\* GraphBuilder._add_term: the builder afterwards, with the trail of node ids
_add_term(g, term, negated) ==
    add_term_loop(term, 1,
        [nodes |-> g.nodes, edges |-> g.edges, node_count |-> g.node_count,
         prev_node |-> NoNode, is_prev_positive |-> TRUE, trail |-> <<>>],
        negated)

\* start_questions = set(term[0].name for term in terms)
start_questions_of(terms) == {terms[t][1].name : t \in 1..Len(terms)}

\* lines of the diagram text; their order follows set iteration and is left
\* open, and the fixed directive and styling lines are left out
Decl(id, text) == [line |-> "decl", id |-> id, text |-> text]
Link(src, cond, tgt) == [line |-> "link", src |-> src, cond |-> cond, tgt |-> tgt]

start_lines(start_q, questions, smap) ==
    IF start_q \in DOMAIN smap THEN
        {Decl(start_q, display(questions, start_q))}
        \cup UNION {{Link(Start, "", smap[start_q][j]),
                     Decl(smap[start_q][j], display(questions, smap[start_q][j])),
                     Link(smap[start_q][j], "Yes", start_q),
                     Link(smap[start_q][j], "No", Deny)} : j \in 1..Len(smap[start_q])}
    ELSE {Link(Start, "", start_q)}

mermaid_lines(g, start_questions, questions, smap) ==
    {Decl(Start, "Start"), Decl(Approve, "Yes"), Decl(Deny, "No")}
    \cup {Decl(n, display(questions, base_name(n))) : n \in g.nodes}
    \cup UNION {start_lines(q, questions, smap) : q \in start_questions}
    \cup {Link(e[1], e[2], e[3]) : e \in g.edges}

\* lines 179-181 of build_dag
dag_nodes(g, questions) ==
    [b \in {Start} \cup {base_name(n) : n \in g.nodes} |->
        IF b = Start THEN "Decision Point" ELSE display(questions, b)]

\* the orders in which a set can be listed
RECURSIVE Listings(_)
Listings(S) ==
    IF S = {} THEN {<<>>}
    ELSE UNION {{<<x>> \o rest : rest \in Listings(S \ {x})} : x \in S}

\* lines 185-190: per (base_src, cond) the edge written last wins
dag_keys(edges) == {<<base_name(e[1]), e[2]>> : e \in edges}
dag_candidates(edges, key) ==
    {base_name(e[3]) : e \in {x \in edges : base_name(x[1]) = key[1] /\ x[2] = key[2]}}

RECURSIVE dag_winners(_, _)
dag_winners(edges, keys) ==
    IF keys = {} THEN {EmptyMap}
    ELSE LET key == CHOOSE x \in keys : TRUE
         IN  {(key :> tgt) @@ w : tgt \in dag_candidates(edges, key),
                                  w \in dag_winners(edges, keys \ {key})}

dag_edges(edges, winner, start_list) ==
    [b \in {Start} \cup {key[1] : key \in DOMAIN winner} |->
        [c \in (IF b = Start THEN {"Start"} ELSE {})
               \cup {key[2] : key \in {x \in DOMAIN winner : x[1] = b}} |->
            IF <<b, c>> \in DOMAIN winner THEN <<winner[<<b, c>>]>> ELSE start_list]]

(***************************************************************************)
(* Program state.                                                          *)
(***************************************************************************)
VARIABLES
    pc,               \* position in build_graph
    data,             \* the input document [logic, questions]
    preprocessed,     \* the document returned by preprocess
    split_map,        \* the factor groups returned by preprocess
    node,             \* the parsed logic
    normalized_node,  \* the tree handed to DNFConverter.convert
    negated_nodes,    \* NegationNormalizer.negated_nodes
    terms,            \* the DNF returned by convert
    use_dag,          \* the mode of build_graph
    builder,          \* GraphBuilder: nodes, edges, node_count
    start_questions,  \* local of build_mermaid / build_dag
    ti,               \* index of the next term of the loop over terms
    assigned,         \* per term added, curr_node and is_negated of each of its literals
    lines,            \* the diagram text
    dag               \* the DAG document

vars == <<pc, data, preprocessed, split_map, node, normalized_node, negated_nodes,
          terms, use_dag, builder, start_questions, ti, assigned, lines, dag>>

NoDoc == [logic |-> <<>>, questions |-> EmptyMap]
NoDag == [nodes |-> EmptyMap, edges |-> EmptyMap,
          terminal_nodes |-> (Approve :> "Yes") @@ (Deny :> "No")]

Fresh ==
    /\ preprocessed = NoDoc
    /\ split_map = EmptyMap
    /\ node = NoTree
    /\ negated_nodes = {}
    /\ terms = <<>>
    /\ use_dag = FALSE
    /\ builder = NewBuilder
    /\ start_questions = {}
    /\ ti = 1
    /\ assigned = <<>>
    /\ lines = {}
    /\ dag = NoDag

Init ==
    /\ pc = "preprocess"
    /\ data \in Inputs
    /\ normalized_node = NoTree
    /\ Fresh

\* build_graph line 223
Preprocess ==
    /\ pc = "preprocess"
    /\ LET r == preprocess(data)
       IN  /\ preprocessed' = r.doc
           /\ split_map' = r.split_map
    /\ pc' = "parse"
    /\ UNCHANGED <<data, node, normalized_node, negated_nodes, terms, use_dag, builder,
                   start_questions, ti, assigned, lines, dag>>

\* build_graph line 228
ParseLogic ==
    /\ pc = "parse"
    /\ Parse(preprocessed.logic).ok
    /\ node' = Parse(preprocessed.logic).tree
    /\ pc' = "normalize"
    /\ UNCHANGED <<data, preprocessed, split_map, normalized_node, negated_nodes, terms,
                   use_dag, builder, start_questions, ti, assigned, lines, dag>>

\* build_graph line 228 raising SyntaxError
ParseError ==
    /\ pc = "parse"
    /\ ~Parse(preprocessed.logic).ok
    /\ pc' = "error"
    /\ UNCHANGED <<data, preprocessed, split_map, node, normalized_node, negated_nodes,
                   terms, use_dag, builder, start_questions, ti, assigned, lines, dag>>

\* build_graph lines 227-229
Normalize ==
    /\ pc = "normalize"
    /\ LET r == normalize(node, {})
       IN  /\ normalized_node' = r.tree
           /\ negated_nodes' = r.negated
    /\ pc' = "convert"
    /\ UNCHANGED <<data, preprocessed, split_map, node, terms, use_dag, builder,
                   start_questions, ti, assigned, lines, dag>>

\* build_graph line 231
Convert ==
    /\ pc = "convert"
    /\ terms' = convert(normalized_node)
    /\ pc' = "build"
    /\ UNCHANGED <<data, preprocessed, split_map, node, normalized_node, negated_nodes,
                   use_dag, builder, start_questions, ti, assigned, lines, dag>>

\* build_mermaid up to its loop over terms
BuildMermaid ==
    /\ pc = "build"
    /\ use_dag' = FALSE
    /\ start_questions' = start_questions_of(terms)
    /\ pc' = "add_terms"
    /\ UNCHANGED <<data, preprocessed, split_map, node, normalized_node, negated_nodes,
                   terms, builder, ti, assigned, lines, dag>>

\* build_dag up to its loop over terms
BuildDag ==
    /\ pc = "build"
    /\ use_dag' = TRUE
    /\ start_questions' = start_questions_of(terms)
    /\ dag' = [dag EXCEPT !.nodes = dag_nodes(builder, preprocessed.questions)]
    /\ pc' = "add_terms"
    /\ UNCHANGED <<data, preprocessed, split_map, node, normalized_node, negated_nodes,
                   terms, builder, ti, assigned, lines>>

\* one round of "for term in terms: self._add_term(term)"
AddTerm ==
    /\ pc = "add_terms"
    /\ ti <= Len(terms)
    /\ LET st == _add_term(builder, terms[ti], negated_nodes)
       IN  /\ builder' = [nodes |-> st.nodes, edges |-> st.edges, node_count |-> st.node_count]
           /\ assigned' = Append(assigned, st.trail)
    /\ ti' = ti + 1
    /\ UNCHANGED <<pc, data, preprocessed, split_map, node, normalized_node, negated_nodes,
                   terms, use_dag, start_questions, lines, dag>>

\* build_mermaid after the loop
FinishMermaid ==
    /\ pc = "add_terms"
    /\ ti > Len(terms)
    /\ ~use_dag
    /\ lines' = mermaid_lines(builder, start_questions, preprocessed.questions, split_map)
    /\ pc' = "done"
    /\ UNCHANGED <<data, preprocessed, split_map, node, normalized_node, negated_nodes,
                   terms, use_dag, builder, start_questions, ti, assigned, dag>>

\* build_dag after the loop
FinishDag ==
    /\ pc = "add_terms"
    /\ ti > Len(terms)
    /\ use_dag
    /\ \E winner \in dag_winners(builder.edges, dag_keys(builder.edges)),
          start_list \in Listings(start_questions) :
            dag' = [dag EXCEPT !.edges = dag_edges(builder.edges, winner, start_list)]
    /\ pc' = "done"
    /\ UNCHANGED <<data, preprocessed, split_map, node, normalized_node, negated_nodes,
                   terms, use_dag, builder, start_questions, ti, assigned, lines>>

Next ==
    \/ Preprocess
    \/ ParseLogic
    \/ ParseError
    \/ Normalize
    \/ Convert
    \/ BuildMermaid
    \/ BuildDag
    \/ AddTerm
    \/ FinishMermaid
    \/ FinishDag

Spec == Init /\ [][Next]_vars

(***************************************************************************)
(* Direct use of the converter on an arbitrary tree.                       *)
(***************************************************************************)
InitConvert ==
    /\ pc = "convert"
    /\ data = NoDoc
    /\ normalized_node \in Exprs
    /\ Fresh

SpecConvert == InitConvert /\ [][Convert]_vars

(***************************************************************************)
(* Truth assignments and the meaning of trees, DNFs and graphs.            *)
(***************************************************************************)
Assignments == [Names -> BOOLEAN]

RECURSIVE Eval(_, _)
Eval(expr, a) ==
    IF expr.k = "Name" THEN a[expr.id]
    ELSE IF expr.k = "Not" THEN ~Eval(expr.operand, a)
    ELSE IF expr.op = "And" THEN \A i \in 1..Len(expr.values) : Eval(expr.values[i], a)
    ELSE \E i \in 1..Len(expr.values) : Eval(expr.values[i], a)

TermHolds(term, a) == \A i \in 1..Len(term) : a[term[i].name] = term[i].is_positive
DnfHolds(dnf, a) == \E t \in 1..Len(dnf) : TermHolds(dnf[t], a)

AfterNormalize == pc \in {"convert", "build", "add_terms", "done"}
AfterConvert == pc \in {"build", "add_terms", "done"}
AllTermsAdded == (pc = "add_terms" /\ ti > Len(terms)) \/ pc = "done"
\* the literal occurrences <<term index, position>> added to the graph so far
Occurrences == UNION {{<<t, i>> : i \in 1..Len(assigned[t])} : t \in 1..Len(assigned)}
OutEdges(n, cond) == {e \in builder.edges : e[1] = n /\ e[2] = cond}

\* C1: every assignment satisfies the tree iff it satisfies a term of its DNF
C1_DnfCorrect ==
    pc = "build" => \A a \in Assignments : Eval(normalized_node, a) = DnfHolds(terms, a)

(***************************************************************************)
(* The walk of a truth assignment through the graph: from Start along any  *)
(* fan-out edge, then out of each question node along the edge labelled    *)
(* with the answer to the identifier the node was made for.                *)
(***************************************************************************)
IdentOf(n) ==
    LET o == CHOOSE x \in Occurrences : assigned[x[1]][x[2]].node = n
    IN  terms[o[1]][o[2]].name

WalkStep(W, a) ==
    W \cup {e[3] : e \in {x \in builder.edges :
                /\ x[1] \in W \ Sentinels
                /\ x[2] = (IF a[IdentOf(x[1])] THEN "Yes" ELSE "No")}}

RECURSIVE WalkClosure(_, _)
WalkClosure(W, a) ==
    IF WalkStep(W, a) = W THEN W ELSE WalkClosure(WalkStep(W, a), a)

CanApprove(a) == Approve \in WalkClosure(start_questions, a)

NoFactoring == preprocessed = data /\ split_map = EmptyMap

\* C2: with no factoring applied, the walk of an assignment can reach Approve
\* exactly when the expression is true under the assignment
C2_GraphEquivalent ==
    (pc = "done" /\ NoFactoring) =>
        \A a \in Assignments : CanApprove(a) = Eval(node, a)

\* C3: once every term is added, each question node has exactly one outgoing
\* "Yes" edge and exactly one outgoing "No" edge
C3_BinaryNodes ==
    AllTermsAdded =>
        \A n \in builder.nodes \ Sentinels :
            /\ Cardinality(OutEdges(n, "Yes")) = 1
            /\ Cardinality(OutEdges(n, "No")) = 1

(***************************************************************************)
(* The graph the diagram describes: its links, labelled or not.            *)
(***************************************************************************)
Links == {<<l.src, l.tgt>> : l \in {x \in lines : x.line = "link"}}
Succ(S) == {l[2] : l \in {x \in Links : x[1] \in S}}

RECURSIVE Closure(_)
Closure(S) == IF Succ(S) \subseteq S THEN S ELSE Closure(S \cup Succ(S))

ReachableFrom(n) == Closure({n})
OnCycle(n) == n \in Closure(Succ({n}))

\* C4: in the diagram every node reachable from Start reaches Approve or Deny,
\* no node lies on a cycle, and no reachable question node lacks outgoing edges
C4_TerminalsReached ==
    (pc = "done" /\ ~use_dag) =>
        /\ \A n \in ReachableFrom(Start) : ReachableFrom(n) \cap {Approve, Deny} # {}
        /\ \A n \in {l[1] : l \in Links} : ~OnCycle(n)
        /\ \A n \in ReachableFrom(Start) \ Sentinels : Succ({n}) # {}

(***************************************************************************)
(* What normalisation should leave: no Not node, and in negated_nodes the  *)
(* identifiers that stand under an odd number of Nots in the input.        *)
(***************************************************************************)
RECURSIVE HasNot(_)
HasNot(expr) ==
    IF expr.k = "Not" THEN TRUE
    ELSE IF expr.k = "BoolOp" THEN \E i \in 1..Len(expr.values) : HasNot(expr.values[i])
    ELSE FALSE

RECURSIVE NegatedIdentifiers(_, _)
NegatedIdentifiers(expr, odd) ==
    IF expr.k = "Name" THEN (IF odd THEN {expr.id} ELSE {})
    ELSE IF expr.k = "Not" THEN NegatedIdentifiers(expr.operand, ~odd)
    ELSE UNION {NegatedIdentifiers(expr.values[i], odd) : i \in 1..Len(expr.values)}

\* C5: the normalised tree contains no Not node, and negated_nodes holds exactly
\* the identifiers from which a directly applied Not was removed
C5_NormalizerPostcondition ==
    AfterNormalize =>
        /\ ~HasNot(normalized_node)
        /\ negated_nodes = NegatedIdentifiers(node, FALSE)

(***************************************************************************)
(* The failures of the factoring pass on an input document.                *)
(***************************************************************************)
RECURSIVE SomeClauseUnmatched(_, _, _, _)
SomeClauseUnmatched(or_groups, i, next_id, new_logic) ==
    IF i > Len(or_groups) THEN FALSE
    ELSE \/ ~contains(new_logic, old_part_of(or_groups[i].or_terms))
         \/ SomeClauseUnmatched(or_groups, i + 1, next_id + 1,
                replace(new_logic, old_part_of(or_groups[i].or_terms),
                        <<get_next_id(next_id)>>))

FactoringFails(d) ==
    LET logic == reordered_logic(d.logic)
        parsed == Parse(logic)
    IN  \/ ~parsed.ok
        \/ SomeClauseUnmatched(find_or_groups(parsed.tree, 0), 1, 1, logic)

\* C6: when the factoring pass fails, preprocess returns the input document
\* unchanged and an empty factor-group map
C6_FactoringFallback ==
    (pc # "preprocess" /\ FactoringFails(data)) =>
        /\ preprocessed = data
        /\ split_map = EmptyMap

\* C7: the DAG document maps Start to "Decision Point" and the base identifier
\* of every question node to its display text, so every source of its edges
\* is a key of its nodes
C7_DagNodesComplete ==
    (pc = "done" /\ use_dag /\ terms # <<>>) =>
        /\ Start \in DOMAIN dag.nodes
        /\ dag.nodes[Start] = "Decision Point"
        /\ \A n \in builder.nodes :
              /\ base_name(n) \in DOMAIN dag.nodes
              /\ dag.nodes[base_name(n)] = display(preprocessed.questions, base_name(n))
        /\ DOMAIN dag.edges \subseteq DOMAIN dag.nodes

(***************************************************************************)
(* The scenario of a negated conjunction of distinct identifiers.          *)
(***************************************************************************)
IsNegatedConjunction ==
    /\ node.k = "Not"
    /\ node.operand.k = "BoolOp"
    /\ node.operand.op = "And"
    /\ \A i \in 1..Len(node.operand.values) : node.operand.values[i].k = "Name"
    /\ \A i, j \in 1..Len(node.operand.values) :
          i # j => node.operand.values[i].id # node.operand.values[j].id

Conjuncts == [i \in 1..Len(node.operand.values) |-> node.operand.values[i].id]

YesDenyNoApprove(n) ==
    {e \in builder.edges : e[1] = n} = {<<n, "Yes", Deny>>, <<n, "No", Approve>>}

\* C8 as stated: Not(And(x1..xk)) becomes Or(Not(x1)..Not(xk)), the DNF is k
\* single negative literals, and each xi has Yes -> Deny and No -> Approve
C8_AsStated ==
    (pc = "done" /\ IsNegatedConjunction) =>
        /\ normalized_node = BoolOp("Or", [i \in 1..Len(Conjuncts) |-> Not(Name(Conjuncts[i]))])
        /\ terms = [i \in 1..Len(Conjuncts) |-> <<Literal(Conjuncts[i], FALSE)>>]
        /\ \A i \in 1..Len(Conjuncts) : YesDenyNoApprove(Conjuncts[i])

\* C8 amended: Not(And(x1..xk)) becomes Or(x1..xk) with x1..xk recorded in
\* negated_nodes, the DNF is k single positive literals in input order, and
\* each xi has Yes -> Deny and No -> Approve
C8_NegatedConjunction ==
    (AfterConvert /\ IsNegatedConjunction) =>
        /\ normalized_node = BoolOp("Or", [i \in 1..Len(Conjuncts) |-> Name(Conjuncts[i])])
        /\ negated_nodes = {Conjuncts[i] : i \in 1..Len(Conjuncts)}
        /\ terms = [i \in 1..Len(Conjuncts) |-> <<Literal(Conjuncts[i], TRUE)>>]
        /\ pc = "done" => \A i \in 1..Len(Conjuncts) : YesDenyNoApprove(Conjuncts[i])

\* a negated conjunction of at least three distinct identifiers has been compiled
C8_Witness ==
    /\ pc = "done"
    /\ IsNegatedConjunction
    /\ Len(Conjuncts) >= 3
    /\ \A i \in 1..Len(Conjuncts) : YesDenyNoApprove(Conjuncts[i])

\* C9: when no term holds a virtual identifier, the diagram links Start to the
\* node id that _add_term gave the first literal of every term
C9_StartCoversTerms ==
    (pc = "done" /\ ~use_dag
        /\ \A o \in Occurrences : terms[o[1]][o[2]].name \notin DOMAIN split_map) =>
        \A t \in 1..Len(terms) : Link(Start, "", assigned[t][1].node) \in lines

\* C10: is_negated of every literal occurrence tells whether the literal's
\* identifier is in negated_nodes, so the node of a positive last literal whose
\* identifier is negated has Yes -> Deny and No -> Approve
C10_NegationByIdentifier ==
    \A o \in Occurrences :
        LET lit == terms[o[1]][o[2]]
            n == assigned[o[1]][o[2]].node
        IN  /\ assigned[o[1]][o[2]].is_negated = (lit.name \in negated_nodes)
            /\ (o[2] = Len(terms[o[1]]) /\ lit.is_positive /\ lit.name \in negated_nodes) =>
                  /\ <<n, "Yes", Deny>> \in builder.edges
                  /\ <<n, "No", Approve>> \in builder.edges

====
